---- MODULE Spec2Model ----
(***************************************************************************)
(* Q-score histogram plot logic of the interop library                     *)
(* (src/interop/logic/plot/plot_qscore_histogram.h).                       *)
(*                                                                         *)
(* Two specifications:                                                     *)
(*   SpecFn  each helper function applied once to inputs drawn in Init     *)
(*   Spec    repeated plot_qscore_histogram invocations on one metric      *)
(*           store                                                         *)
(*                                                                         *)
(* Numbers.  Histogram values are C++ floats that are divided by 1e6 and   *)
(* by 1000 and compared with 10000; the raw values that reach the          *)
(* threshold (1e10) do not fit a TLC integer.  A value is therefore the    *)
(* record [m, e] standing for m * 1000^e (m >= 0, m not a multiple of     *)
(* 1000 unless the value is zero, which is [0, 0]); division by a power    *)
(* of 1000 is exact in this form.                                          *)
(***************************************************************************)
EXTENDS Integers, Sequences, FiniteSets, TLC

\* ------------------------------------------------------------------ bounds
MaxRecs == 2
MaxStoreRecs == 2
MaxHist == 4
MaxBinHist == 3
MaxBins == 3
MaxCycle == 3
SizeBits == 16

\* ----------------------------------------------------------------- numbers
Zero == [m |-> 0, e |-> 0]

Pow1000(k) == IF k = 0 THEN 1 ELSE IF k = 1 THEN 1000 ELSE IF k = 2 THEN 1000000 ELSE 1000000000

RECURSIVE Norm(_, _)
Norm(m, e) == IF m = 0 THEN Zero
              ELSE IF m % 1000 = 0 THEN Norm(m \div 1000, e + 1)
              ELSE [m |-> m, e |-> e]

\* a < b for two non-negative values
FLess(a, b) ==
    IF b.m = 0 THEN FALSE
    ELSE IF a.m = 0 THEN TRUE
    ELSE IF a.e = b.e THEN a.m < b.m
    ELSE IF a.e > b.e
         THEN IF a.e - b.e > 3 THEN FALSE
              ELSE a.m <= (b.m - 1) \div Pow1000(a.e - b.e)
         ELSE IF b.e - a.e > 3 THEN TRUE
              ELSE ~(b.m <= a.m \div Pow1000(b.e - a.e))

FMax(a, b) == IF FLess(a, b) THEN b ELSE a

FAdd(a, b) ==
    IF a.m = 0 THEN b
    ELSE IF b.m = 0 THEN a
    ELSE LET lo == IF a.e < b.e THEN a.e ELSE b.e
         IN  Norm(a.m * Pow1000(a.e - lo) + b.m * Pow1000(b.e - lo), lo)

\* v / 1000^k
FDiv1000(v, k) == IF v.m = 0 THEN Zero ELSE [m |-> v.m, e |-> v.e - k]

Min(a, b) == IF a < b THEN a ELSE b
Max(a, b) == IF a < b THEN b ELSE a

RECURSIVE MaxOfCycles(_)
MaxOfCycles(set) ==
    IF Len(set) = 0 THEN 0 ELSE Max(Head(set).cycle, MaxOfCycles(Tail(set)))

\* --------------------------------------------------- filter and accumulate
\* filter_options: lane, surface, read and cycle are 0 for "all"
all_reads(options) == options.read = 0
all_cycles(options) == options.cycle = 0
is_specific_read(options) == options.read # 0
is_specific_surface(options) == options.surface # 0

valid_tile(options, rec) ==
    /\ (options.lane = 0 \/ rec.lane = options.lane)
    /\ (options.surface = 0 \/ rec.surface = options.surface)

accumulate_into(rec, histogram) ==
    [k \in 1..Len(histogram) |-> FAdd(histogram[k], rec.counts[k])]

resize_hist(histogram, n) ==
    IF n <= Len(histogram) THEN SubSeq(histogram, 1, n)
    ELSE histogram \o [k \in 1..(n - Len(histogram)) |-> Zero]

accepts_MutExclusiveLast(options, rec, first_cycle, last_cycle) ==
    ~( ~valid_tile(options, rec) \/ rec.cycle < first_cycle \/ rec.cycle >= last_cycle )

accepts(options, rec, first_cycle, last_cycle) ==
    ~( ~valid_tile(options, rec) \/ rec.cycle < first_cycle \/ rec.cycle > last_cycle )

RECURSIVE populate_loop(_, _, _, _, _, _)
populate_loop(recs, i, options, first_cycle, last_cycle, histogram) ==
    IF i > Len(recs) THEN histogram
    ELSE IF ~accepts(options, recs[i], first_cycle, last_cycle)
         THEN populate_loop(recs, i + 1, options, first_cycle, last_cycle, histogram)
         ELSE populate_loop(recs, i + 1, options, first_cycle, last_cycle,
                            accumulate_into(recs[i], histogram))

populate_distribution(recs, options, first_cycle, last_cycle, histogram) ==
    IF Len(recs) = 0 THEN histogram
    ELSE populate_loop(recs, 1, options, first_cycle, last_cycle,
                       resize_hist(histogram, Len(recs[1].counts)))

\* ------------------------------------------------------------------- scale
Threshold == [m |-> 10, e |-> 1]

RECURSIVE scale_first_pass(_, _, _)
scale_first_pass(histogram, i, st) ==
    IF i > Len(histogram) THEN st
    ELSE LET v == FDiv1000(histogram[i], 2)
         IN  scale_first_pass(histogram, i + 1,
                 [hist |-> [st.hist EXCEPT ![i] = v],
                  max_height |-> FMax(st.max_height, v)])

below_threshold_MutLeq(max_height) == ~FLess(Threshold, max_height)

below_threshold(max_height) == FLess(max_height, Threshold)

scale_histogram(histogram) ==
    LET st == scale_first_pass(histogram, 1, [hist |-> histogram, max_height |-> Zero])
    IN  IF below_threshold(st.max_height)
        THEN [hist |-> st.hist, label |-> "million"]
        ELSE [hist |-> [k \in 1..Len(histogram) |-> FDiv1000(st.hist[k], 1)],
              label |-> "billion"]

\* --------------------------------------------------------- chart points
DefaultPoint == [x |-> 0, y |-> Zero, width |-> 0]

point_set(x, y, width) == [x |-> x, y |-> y, width |-> width]

resize_points(points, n) ==
    IF n <= Len(points) THEN SubSeq(points, 1, n)
    ELSE points \o [k \in 1..(n - Len(points)) |-> DefaultPoint]

is_zero(v) == v = Zero

\* ---------------------------------------------------------- unbinned layout
\* i is the 0-based slot index of the loop at line 92
RECURSIVE unbinned_loop(_, _, _)
unbinned_loop(histogram, i, st) ==
    IF ~(i < Len(histogram)) THEN st
    ELSE IF is_zero(histogram[i + 1]) THEN unbinned_loop(histogram, i + 1, st)
    ELSE unbinned_loop(histogram, i + 1,
             [points |-> [st.points EXCEPT ![st.point_index + 1] =
                              point_set(i + 1, histogram[i + 1], 0)],
              point_index |-> st.point_index + 1])

unbinned_return_MutLastX(points, point_index) ==
    IF point_index = 0 THEN 0 ELSE points[point_index].x

unbinned_return(points, point_index) ==
    IF point_index = 0 THEN 0 ELSE points[point_index].x + 1

plot_unbinned_histogram(histogram, points) ==
    LET st == unbinned_loop(histogram, 0,
                  [points |-> resize_points(points, Len(histogram)), point_index |-> 0])
        pts == resize_points(st.points, st.point_index)
    IN  [status |-> "ok", points |-> pts, ret |-> unbinned_return(pts, st.point_index)]

\* ------------------------------------------------------------ binned layout
SizeModulus == 2 ^ SizeBits

bin_index_MutNoDecrement(value) == value % SizeModulus

\* static_cast<size_t>(beg->value()) - 1, in unsigned arithmetic
bin_index(value) == (value - 1) % SizeModulus

\* INTEROP_ASSERT / INTEROP_ASSERTMSG: a failed test ends the layout
assert_fails(tst) == ~tst

bin_width_MutNoPlusOne(b) == b.upper - b.lower

bin_width(b) == b.upper - b.lower + 1

is_compressed(n_points, histogram) == n_points = Len(histogram)

\* i is the 0-based position of the loops at lines 121 and 132; slots_read
\* lists the histogram indices read, in order
RECURSIVE binned_loop(_, _, _, _, _)
binned_loop(bins, histogram, compressed, i, st) ==
    IF ~(i < Len(bins)) THEN st
    ELSE LET b == bins[i + 1]
             bin == IF compressed THEN i ELSE bin_index(b.value)
         IN  IF assert_fails(bin < Len(histogram))
             THEN [st EXCEPT !.status = "IndexOutOfRange", !.failed_at = i]
             ELSE LET st1 == [st EXCEPT !.slots_read = Append(@, bin)]
                  IN  IF is_zero(histogram[bin + 1])
                      THEN binned_loop(bins, histogram, compressed, i + 1, st1)
                      ELSE LET p == point_set(b.lower, histogram[bin + 1], bin_width(b))
                           IN  binned_loop(bins, histogram, compressed, i + 1,
                                   [st1 EXCEPT !.points[st.point_index + 1] = p,
                                               !.max_x_value = Max(@, p.x + p.width),
                                               !.point_index = @ + 1])

plot_binned_histogram(bins, histogram, points) ==
    LET pts == resize_points(points, Len(bins))
        st == binned_loop(bins, histogram, is_compressed(Len(pts), histogram), 0,
                  [status |-> "ok", failed_at |-> -1, points |-> pts, point_index |-> 0,
                   max_x_value |-> 0, slots_read |-> <<>>])
    IN  IF st.status = "ok"
        THEN [status |-> "ok", points |-> resize_points(st.points, st.point_index),
              ret |-> st.max_x_value, slots_read |-> st.slots_read, failed_at |-> -1]
        ELSE [status |-> st.status, points |-> st.points, ret |-> 0,
              slots_read |-> st.slots_read, failed_at |-> st.failed_at]

\* ------------------------------------------------------------------ state
VARIABLES
    fn, args, out, pc,          \* SpecFn: the function, its inputs, its result
    qSet, laneSet, bins,        \* metric store: per-tile records, per-lane aggregate, bin table
    runInfo,                    \* run metadata: reads, flowcell barcode, surface count
    data,                       \* the output plot data
    last                        \* what the latest plot_qscore_histogram invocation did

vars == <<fn, args, out, pc, qSet, laneSet, bins, runInfo, data, last>>
fnVars == <<fn, args, out, pc>>
storeVars == <<qSet, laneSet, bins, runInfo, data, last>>

\* sequences over S of length lo..hi
SeqsOf(S, lo, hi) == UNION {[1..n -> S] : n \in lo..hi}

\* ------------------------------------------------------- inputs of SpecFn
\* count vectors of length n, one per lane
CountVector(n, lane) ==
    IF n = 1 THEN (IF lane = 1 THEN <<[m |-> 1, e |-> 2]>> ELSE <<[m |-> 10, e |-> 3]>>)
    ELSE IF lane = 1
         THEN [k \in 1..n |-> IF k = 1 THEN [m |-> 9999, e |-> 2] ELSE [m |-> 1, e |-> 2]]
         ELSE [k \in 1..n |-> IF k = 1 THEN Zero ELSE [m |-> 10, e |-> 3]]
Records(n) ==
    {[lane |-> l, surface |-> s, cycle |-> c, counts |-> CountVector(n, l)] :
        l \in 1..2, s \in 1..2, c \in 1..3}
FilterSet == [lane : 0..1, surface : 0..1, read : {0}, cycle : {0}]

ScaleValues == {Zero, [m |-> 7, e |-> 0], [m |-> 9999999, e |-> 1], [m |-> 10, e |-> 3],
                [m |-> 10000001, e |-> 1], [m |-> 25, e |-> 4]}
ScaleInputs == [histogram : SeqsOf(ScaleValues, 0, MaxHist)]

LayoutValues == {Zero, [m |-> 5, e |-> 0], [m |-> 3, e |-> 0]}
Histograms == SeqsOf(LayoutValues, 0, MaxHist)
BinHistograms == SeqsOf(LayoutValues, 0, MaxBinHist)
StalePoint == [x |-> 77, y |-> [m |-> 77, e |-> 0], width |-> 7]
PriorPoints == {<<>>, <<StalePoint>>, [k \in 1..(MaxHist + 2) |-> StalePoint]}
UnbinnedInputs == [histogram : Histograms, points : PriorPoints]

BinRanges == <<[lower |-> 0, upper |-> 9], [lower |-> 10, upper |-> 19],
               [lower |-> 20, upper |-> 20]>>
BinUniverse ==
    {[value |-> v, lower |-> BinRanges[((v + 2) % 3) + 1].lower,
      upper |-> BinRanges[((v + 2) % 3) + 1].upper] : v \in 0..(MaxBinHist + 1)}
    \cup {[value |-> 1, lower |-> 10, upper |-> 19]}
BinnedInputs == [bins : SeqsOf(BinUniverse, 0, MaxBins), histogram : BinHistograms,
                 points : {<<>>, [k \in 1..(MaxBins + 2) |-> StalePoint]}]

NoData == [series |-> <<>>, title |-> <<>>, xlabel |-> "", ylabel |-> "",
           xrange |-> <<>>, yrange |-> <<>>]
NoCall == [outcome |-> "none"]

InitFn ==
    /\ pc = "ready"
    /\ out = <<>>
    /\ \/ /\ fn = "populate_distribution"
          /\ \E n \in 1..2 : \E recs \in SeqsOf(Records(n), 0, MaxRecs) :
             \E options \in FilterSet, first_cycle \in 1..2, last_cycle \in 1..3 :
                 args = [recs |-> recs, options |-> options,
                         first_cycle |-> first_cycle, last_cycle |-> last_cycle]
       \/ fn = "scale_histogram" /\ args \in ScaleInputs
       \/ fn = "plot_unbinned_histogram" /\ args \in UnbinnedInputs
       \/ fn = "plot_binned_histogram" /\ args \in BinnedInputs
    /\ qSet = <<>> /\ laneSet = <<>> /\ bins = <<>>
    /\ runInfo = [reads |-> <<>>, barcode |-> "", surface_count |-> 1]
    /\ data = NoData
    /\ last = NoCall

CallPopulate ==
    /\ pc = "ready" /\ fn = "populate_distribution"
    /\ out' = populate_distribution(args.recs, args.options, args.first_cycle,
                                    args.last_cycle, <<>>)
    /\ pc' = "done"
    /\ UNCHANGED <<fn, args, storeVars>>

CallScale ==
    /\ pc = "ready" /\ fn = "scale_histogram"
    /\ out' = scale_histogram(args.histogram)
    /\ pc' = "done"
    /\ UNCHANGED <<fn, args, storeVars>>

CallUnbinned ==
    /\ pc = "ready" /\ fn = "plot_unbinned_histogram"
    /\ out' = plot_unbinned_histogram(args.histogram, args.points)
    /\ pc' = "done"
    /\ UNCHANGED <<fn, args, storeVars>>

CallBinned ==
    /\ pc = "ready" /\ fn = "plot_binned_histogram"
    /\ out' = plot_binned_histogram(args.bins, args.histogram, args.points)
    /\ pc' = "done"
    /\ UNCHANGED <<fn, args, storeVars>>

NextFn == CallPopulate \/ CallScale \/ CallUnbinned \/ CallBinned

SpecFn == InitFn /\ [][NextFn]_vars

\* ----------------------------------------------------------- collaborators
\* run::info::read(n): the n-th read (1-based); an unknown n raises
\* invalid_read_exception
read_exists(run_info, n) == n \in 1..Len(run_info.reads)

\* metric_set::max_cycle(): 0 for an empty set
max_cycle(set) == MaxOfCycles(set)

\* logic::metric::create_q_metrics_by_lane: one record per (lane, cycle), in
\* order of first appearance, holding the sum of the tiles' count vectors
RECURSIVE by_lane_loop(_, _, _)
by_lane_loop(q, i, acc) ==
    IF i > Len(q) THEN acc
    ELSE LET r == q[i]
             hit == {j \in 1..Len(acc) : acc[j].lane = r.lane /\ acc[j].cycle = r.cycle}
         IN  IF hit = {}
             THEN by_lane_loop(q, i + 1,
                      Append(acc, [lane |-> r.lane, surface |-> 0, cycle |-> r.cycle,
                                   counts |-> r.counts]))
             ELSE LET j == CHOOSE k \in hit : TRUE
                  IN  by_lane_loop(q, i + 1,
                          [acc EXCEPT ![j].counts = accumulate_into(r, acc[j].counts)])

create_q_metrics_by_lane(q) == by_lane_loop(q, 1, <<>>)

RECURSIVE max_y(_, _)
max_y(points, i) ==
    IF i > Len(points) THEN Zero ELSE FMax(points[i].y, max_y(points, i + 1))

\* auto_scale_y(data, false): fit the y range to the points
auto_scale_y(points) == <<Zero, max_y(points, 1)>>

lane_description(options) == <<"Lane", options.lane>>
read_description(options) == <<"Read", options.read>>
surface_description(options) == <<"Surface", options.surface>>

\* ------------------------------------------------------------- orchestrator
\* plot_data: series, title (<<>> is unset), labels, ranges.  The x range is
\* kept in tenths, so that 1.1 * max_x_value stays an integer.
QScoreSeries == [name |-> "Q Score", kind |-> "Bar", options |-> <<"Shifted">>, points |-> <<>>]

get_last_filtered_cycle_MutIgnoresCycle(run_info, options, max_cyc) ==
    IF all_reads(options) THEN max_cyc ELSE run_info.reads[options.read].last_cycle

get_last_filtered_cycle(run_info, options, max_cyc) ==
    LET last_cycle == IF all_reads(options) THEN max_cyc
                      ELSE run_info.reads[options.read].last_cycle
    IN  IF ~all_cycles(options) THEN Min(last_cycle, options.cycle) ELSE last_cycle

get_first_cycle(run_info, options) ==
    IF all_reads(options) THEN 1 ELSE run_info.reads[options.read].first_cycle

\* run_info.read(options.read()) raises
read_raises(run_info, options) ==
    ~all_reads(options) /\ ~read_exists(run_info, options.read)

source_is_empty_MutNever(set) == FALSE

source_is_empty(set) == Len(set) = 0

needs_aggregation_MutAlways(lane) == TRUE

needs_aggregation(lane) == 0 = Len(lane)

xrange_of_MutClamped(max_x_value) == <<10, Max(10, 11 * max_x_value)>>

\* data.set_xrange(1, max_x_value * 1.1f), in tenths
xrange_of(max_x_value) == <<10, 11 * max_x_value>>

compose_title(run_info, options) ==
    (IF run_info.barcode # "" THEN <<run_info.barcode>> ELSE <<>>)
    \o <<lane_description(options)>>
    \o (IF is_specific_read(options) THEN <<read_description(options)>> ELSE <<>>)
    \o (IF run_info.surface_count > 1 /\ is_specific_surface(options)
        THEN <<surface_description(options)>> ELSE <<>>)

\* lines 227-240
finalize(d, run_info, options, axis_scale, max_x_value) ==
    [d EXCEPT !.yrange = auto_scale_y(d.series[1].points),
              !.xrange = xrange_of(max_x_value),
              !.xlabel = "Q Score",
              !.ylabel = <<"Total", axis_scale>>,
              !.title = compose_title(run_info, options)]

\* lines 181-194 and 211-224, then 227-240: the result of one invocation once
\* the source and the cycle window are known
pipeline(source, binsT, run_info, options, first_cycle, last_cycle, d, lane, tr) ==
    LET histogram == populate_distribution(source, options, first_cycle, last_cycle, <<>>)
        scaled == scale_histogram(histogram)
        layout == IF Len(binsT) # 0
                  THEN plot_binned_histogram(binsT, scaled.hist, d.series[1].points)
                  ELSE plot_unbinned_histogram(scaled.hist, d.series[1].points)
        d2 == [d EXCEPT !.series[1].points = layout.points]
        tr2 == [tr EXCEPT !.window = <<first_cycle, last_cycle>>,
                          !.layout = IF Len(binsT) # 0 THEN "binned" ELSE "unbinned"]
    IN  IF layout.status # "ok"
        THEN [data |-> d2, laneSet |-> lane, last |-> [tr2 EXCEPT !.outcome = layout.status]]
        ELSE [data |-> finalize(d2, run_info, options, scaled.label, layout.ret),
              laneSet |-> lane,
              last |-> [tr2 EXCEPT !.outcome = "done", !.max_x_value = layout.ret]]

plot_qscore_histogram(q, lane, binsT, run_info, options) ==
    LET tr == [outcome |-> "none", options |-> options, source |-> "none",
               aggregator_called |-> FALSE, window |-> <<>>, layout |-> "none",
               max_x_value |-> 0]
        cleared == NoData
    IN  IF read_raises(run_info, options)
        THEN [data |-> cleared, laneSet |-> lane,
              last |-> [tr EXCEPT !.outcome = "InvalidReadReference"]]
        ELSE
        LET first_cycle == get_first_cycle(run_info, options)
            d == [cleared EXCEPT !.series = <<QScoreSeries>>]
        IN  IF is_specific_surface(options)
            THEN LET tr1 == [tr EXCEPT !.source = "raw"]
                 IN  IF read_raises(run_info, options)
                     THEN [data |-> d, laneSet |-> lane,
                           last |-> [tr1 EXCEPT !.outcome = "InvalidReadReference"]]
                     ELSE
                     LET last_cycle == get_last_filtered_cycle(run_info, options, max_cycle(q))
                         tr2 == [tr1 EXCEPT !.window = <<first_cycle, last_cycle>>]
                     IN  IF source_is_empty(q)
                         THEN [data |-> d, laneSet |-> lane,
                               last |-> [tr2 EXCEPT !.outcome = "nodata"]]
                         ELSE pipeline(q, binsT, run_info, options, first_cycle,
                                       last_cycle, d, lane, tr2)
            ELSE LET called == needs_aggregation(lane)
                     lane1 == IF called THEN create_q_metrics_by_lane(q) ELSE lane
                     tr1 == [tr EXCEPT !.source = "lane", !.aggregator_called = called]
                 IN  IF source_is_empty(lane1)
                     THEN [data |-> d, laneSet |-> lane1,
                           last |-> [tr1 EXCEPT !.outcome = "nodata"]]
                     ELSE IF read_raises(run_info, options)
                     THEN [data |-> d, laneSet |-> lane1,
                           last |-> [tr1 EXCEPT !.outcome = "InvalidReadReference"]]
                     ELSE pipeline(lane1, binsT, run_info, options, first_cycle,
                                   get_last_filtered_cycle(run_info, options, max_cycle(lane1)),
                                   d, lane1, tr1)

\* ------------------------------------------------------- the metric store
StoreCounts == <<<<[m |-> 9999, e |-> 2], [m |-> 1, e |-> 2]>>, <<Zero, [m |-> 10, e |-> 3]>>>>
StoreRecords ==
    {[lane |-> 1, surface |-> s, cycle |-> c, counts |-> StoreCounts[s]] :
        s \in 1..2, c \in {1, MaxCycle}}
B(v, l, u) == [value |-> v, lower |-> l, upper |-> u]
StoreBinTables ==
    {<<>>,
     <<B(1, 0, 9), B(2, 10, 19)>>,
     <<B(2, 10, 19)>>,
     <<B(1, 0, 9), B(0, 20, 20), B(2, 10, 19)>>}
ReadTables ==
    {<<[first_cycle |-> 1, last_cycle |-> MaxCycle - 1]>>,
     <<[first_cycle |-> 1, last_cycle |-> MaxCycle - 1],
       [first_cycle |-> MaxCycle, last_cycle |-> MaxCycle]>>}
Flowcells == <<[barcode |-> "", surface_count |-> 1], [barcode |-> "FC1", surface_count |-> 2]>>
PlotFilters == [lane : 0..1, surface : 0..1, read : 0..2, cycle : {0, 2}]

Init ==
    /\ fn = "none" /\ args = <<>> /\ out = <<>> /\ pc = "idle"
    /\ qSet \in SeqsOf(StoreRecords, 0, MaxStoreRecs)
    /\ laneSet = <<>>
    /\ bins \in StoreBinTables
    /\ \E reads \in ReadTables :
           runInfo = [reads |-> reads, barcode |-> Flowcells[Len(reads)].barcode,
                      surface_count |-> Flowcells[Len(reads)].surface_count]
    /\ data = NoData
    /\ last = NoCall

Plot(options) ==
    \E r \in {plot_qscore_histogram(qSet, laneSet, bins, runInfo, options)} :
        /\ data' = r.data
        /\ laneSet' = r.laneSet
        /\ last' = r.last
        /\ UNCHANGED <<qSet, bins, runInfo, fnVars>>

Next == \E options \in PlotFilters : Plot(options)

Spec == Init /\ [][Next]_vars

\* ------------------------------------------------- properties under SpecFn
Done(f) == pc = "done" /\ fn = f

\* v * 1000^k
Times1000(v, k) == IF v.m = 0 THEN Zero ELSE [m |-> v.m, e |-> v.e + k]

\* the k-th smallest element of a finite set of integers
Nth(S, k) == CHOOSE i \in S : Cardinality({j \in S : j < i}) = k - 1

MaxOf(S) == IF S = {} THEN 0 ELSE CHOOSE v \in S : \A w \in S : w <= v

RECURSIVE SumSlot(_, _, _)
SumSlot(recs, k, I) ==
    IF I = {} THEN Zero
    ELSE LET i == CHOOSE j \in I : TRUE
         IN  FAdd(recs[i].counts[k], SumSlot(recs, k, I \ {i}))

AcceptedIdx(a) ==
    {i \in 1..Len(a.recs) : /\ valid_tile(a.options, a.recs[i])
                            /\ a.first_cycle <= a.recs[i].cycle
                            /\ a.recs[i].cycle <= a.last_cycle}

\* C1: populate_distribution on an empty histogram and a non-empty record
\* sequence gives a histogram as long as the first record's count vector whose
\* slot k is the sum of slot k over the records that pass valid_tile and have
\* first_cycle <= cycle <= last_cycle; all slots are 0 when none is accepted.
C1_PopulateSumsAccepted ==
    (Done("populate_distribution") /\ Len(args.recs) > 0) =>
        /\ Len(out) = Len(args.recs[1].counts)
        /\ \A k \in 1..Len(out) : out[k] = SumSlot(args.recs, k, AcceptedIdx(args))

C1_Witness ==
    /\ Done("populate_distribution")
    /\ Len(args.recs) = 2
    /\ AcceptedIdx(args) = {2}
    /\ args.recs[2].cycle = args.last_cycle
    /\ args.recs[1].cycle = args.last_cycle + 1
    /\ valid_tile(args.options, args.recs[1])
    /\ out = args.recs[2].counts
    /\ out[1] # Zero

\* C2: scale_histogram divides every value by 1,000,000; with m the maximum of
\* the divided values (0 for an empty histogram), m >= 10,000 divides by a
\* further 1,000 and returns "billion", otherwise the values stay and "million"
\* is returned; m = 10,000 exactly is "billion".
C2_ScaleTwoTier ==
    Done("scale_histogram") =>
        LET h == args.histogram
            n == Len(h)
            tenThousand == [m |-> 10, e |-> 1]
            big == \E k \in 1..n : ~FLess(Times1000(h[k], -2), tenThousand)
        IN  /\ Len(out.hist) = n
            /\ big => /\ out.label = "billion"
                      /\ \A k \in 1..n : Times1000(out.hist[k], 3) = h[k]
            /\ ~big => /\ out.label = "million"
                       /\ \A k \in 1..n : Times1000(out.hist[k], 2) = h[k]

C2_Witness ==
    /\ Done("scale_histogram")
    /\ args.histogram = <<[m |-> 9999999, e |-> 1], [m |-> 10, e |-> 3]>>
    /\ out.label = "billion"
    /\ out.hist = <<[m |-> 9999999, e |-> -2], [m |-> 10, e |-> 0]>>

NonZero(h) == {i \in 1..Len(h) : h[i] # Zero}

\* C3: plot_unbinned_histogram leaves exactly one point per non-zero slot i
\* (0-based) with x = i+1 and y = histogram[i], in ascending slot order,
\* whatever the collection held before; it returns x of the last point + 1,
\* and 0 when there is no point.
C3_UnbinnedPoints ==
    Done("plot_unbinned_histogram") =>
        LET h == args.histogram
            nz == NonZero(h)
        IN  /\ Len(out.points) = Cardinality(nz)
            /\ \A k \in 1..Len(out.points) :
                   /\ out.points[k].x = Nth(nz, k)
                   /\ out.points[k].y = h[Nth(nz, k)]
            /\ out.ret = IF nz = {} THEN 0 ELSE out.points[Len(out.points)].x + 1

C3_Witness ==
    /\ Done("plot_unbinned_histogram")
    /\ args.histogram = <<Zero, [m |-> 5, e |-> 0], Zero, [m |-> 3, e |-> 0]>>
    /\ Len(args.points) > 4
    /\ Len(out.points) = 2
    /\ out.points[1].x = 2 /\ out.points[1].y = [m |-> 5, e |-> 0]
    /\ out.points[2].x = 4 /\ out.points[2].y = [m |-> 3, e |-> 0]
    /\ out.ret = 5

\* the 0-based histogram slot of the descriptor at 1-based position i
SlotOf(D, H, i) == IF Len(D) = Len(H) THEN i - 1 ELSE D[i].value - 1

\* C4: plot_binned_histogram resolves each descriptor to slot i (|D| = |H|) or
\* value - 1 (otherwise, in range), emits in descriptor order one point
\* (lower, H[slot], upper - lower + 1) per descriptor with a non-zero slot, and
\* returns the maximum x + width of the points, 0 without points.
C4_BinnedPoints ==
    LET D == args.bins
        H == args.histogram
    IN  (/\ Done("plot_binned_histogram")
         /\ \A i \in 1..Len(D) : SlotOf(D, H, i) \in 0..(Len(H) - 1)) =>
            LET nz == {i \in 1..Len(D) : H[SlotOf(D, H, i) + 1] # Zero}
            IN  /\ out.status = "ok"
                /\ Len(out.points) = Cardinality(nz)
                /\ \A k \in 1..Len(out.points) :
                       LET i == Nth(nz, k)
                       IN  out.points[k] = [x |-> D[i].lower, y |-> H[SlotOf(D, H, i) + 1],
                                            width |-> D[i].upper - D[i].lower + 1]
                /\ out.ret = MaxOf({D[i].lower + (D[i].upper - D[i].lower + 1) : i \in nz})

C4_Witness ==
    /\ Done("plot_binned_histogram")
    /\ args.bins = <<[value |-> 1, lower |-> 0, upper |-> 9],
                     [value |-> 2, lower |-> 10, upper |-> 19]>>
    /\ args.histogram = <<[m |-> 5, e |-> 0], Zero>>
    /\ out.points = <<[x |-> 0, y |-> [m |-> 5, e |-> 0], width |-> 10]>>
    /\ out.ret = 10

InvalidAt(D, H) == {i \in 1..Len(D) : D[i].value = 0 \/ D[i].value > Len(H)}

\* C5: in uncompressed layout a descriptor whose value - 1 is no histogram
\* index (value = 0, or value > histogram length) makes the layout fail with
\* IndexOutOfRange at that descriptor, before any read at that index: every
\* read so far was in range and no earlier descriptor was skipped.
C5_BadDescriptorFails ==
    LET D == args.bins
        H == args.histogram
    IN  (/\ Done("plot_binned_histogram")
         /\ Len(D) # Len(H)
         /\ InvalidAt(D, H) # {}) =>
            LET f == Nth(InvalidAt(D, H), 1)
            IN  /\ out.status = "IndexOutOfRange"
                /\ out.failed_at = f - 1
                /\ Len(out.slots_read) = f - 1
                /\ \A k \in 1..(f - 1) : out.slots_read[k] = D[k].value - 1

C5_Witness ==
    /\ Done("plot_binned_histogram")
    /\ Len(args.histogram) = 3
    /\ Len(args.bins) = 2
    /\ args.bins[1].value = 3 /\ args.histogram[3] # Zero
    /\ args.bins[2].value = 0
    /\ out.status = "IndexOutOfRange"
    /\ out.slots_read = <<2>>

\* --------------------------------------------------- properties under Spec
Called == last.outcome # "none"

ReadValid(options) == options.read = 0 \/ options.read \in 1..Len(runInfo.reads)

\* the collection the latest invocation's filter selects, as the store holds
\* it after the invocation
ChosenSource == IF last.options.surface # 0 THEN qSet ELSE laneSet

NoDataResult ==
    /\ last.outcome = "nodata"
    /\ Len(data.series) = 1
    /\ data.series[1].name = "Q Score"
    /\ data.series[1].points = <<>>
    /\ data.title = <<>>

\* C6 as stated: an empty source gives the title-less, point-less "Q Score"
\* series and no error, whatever read the filter names.
C6_Original == (Called /\ qSet = <<>> /\ laneSet = <<>>) => NoDataResult

\* C6: with a filter that spans all reads or names a read of the run, an empty
\* chosen source gives exactly one series "Q Score" with no point and no title,
\* and no error; with a read the run does not have, InvalidReadReference is
\* raised before the source is looked at.
C6_EmptySourceNoData ==
    (Called /\ ChosenSource = <<>>) =>
        IF ReadValid(last.options) THEN NoDataResult
        ELSE last.outcome = "InvalidReadReference"

C6_Witness ==
    /\ Called
    /\ last.options.read = 1
    /\ last.options.surface = 0
    /\ qSet = <<>>
    /\ NoDataResult

\* C7: when plot_qscore_histogram raises InvalidReadReference or
\* IndexOutOfRange, the output plot data holds no series.
C7_NoPartialSeriesOnError ==
    (Called /\ last.outcome \in {"InvalidReadReference", "IndexOutOfRange"}) =>
        data.series = <<>>

CyclesOf(set) == {set[i].cycle : i \in 1..Len(set)}

\* C8: with a valid read reference the window is [first_cycle, last_cycle],
\* first_cycle = 1 for all reads, else the read's first cycle; last_cycle = L
\* for all cycles, else min(L, requested cycle), L being the source's maximum
\* cycle for all reads, else the read's last cycle.
C8_CycleWindow ==
    (Called /\ last.window # <<>>) =>
        LET o == last.options
            L == IF o.read = 0 THEN MaxOf(CyclesOf(ChosenSource))
                 ELSE runInfo.reads[o.read].last_cycle
        IN  /\ ReadValid(o)
            /\ last.window[1] = (IF o.read = 0 THEN 1 ELSE runInfo.reads[o.read].first_cycle)
            /\ last.window[2] = (IF o.cycle = 0 THEN L ELSE IF o.cycle < L THEN o.cycle ELSE L)

C8_Witness ==
    /\ Called
    /\ last.options.read = 0 /\ last.options.cycle = 2
    /\ MaxOf(CyclesOf(ChosenSource)) = MaxCycle
    /\ last.window = <<1, 2>>

FrameOfPlot ==
    /\ qSet' = qSet /\ bins' = bins /\ runInfo' = runInfo
    /\ laneSet # <<>> => laneSet' = laneSet
    /\ last'.options.surface # 0 => (laneSet' = laneSet /\ ~last'.aggregator_called)

\* C9 as stated: every invocation with a non-surface-specific filter invokes
\* the aggregator if and only if the per-lane aggregate is empty.
C9_Original ==
    [][ /\ FrameOfPlot
        /\ last'.options.surface = 0 => (last'.aggregator_called <=> laneSet = <<>>) ]_vars

\* C9: a surface-specific invocation leaves the per-lane aggregate unchanged
\* and does not aggregate; a non-surface-specific invocation whose read
\* reference is valid invokes the aggregator if and only if the aggregate is
\* empty, and otherwise leaves it as it is; one whose read reference is invalid
\* raises InvalidReadReference without aggregating.  Nothing of the store but
\* the per-lane aggregate changes.
C9_LazyAggregation ==
    [][ /\ FrameOfPlot
        /\ (last'.options.surface = 0 /\ ReadValid(last'.options)) =>
               (last'.aggregator_called <=> laneSet = <<>>)
        /\ ~ReadValid(last'.options) =>
               (~last'.aggregator_called /\ laneSet' = laneSet) ]_vars

C9_Witness ==
    /\ Called
    /\ last.outcome = "done"
    /\ last.source = "lane"
    /\ ~last.aggregator_called
    /\ laneSet = create_q_metrics_by_lane(qSet)
    /\ Len(laneSet) < Len(qSet)

\* C10: when the call returns normally, the chosen source is non-empty and the
\* layout emitted no point, the invocation went through Finalize: labels and
\* title are set and the x range is [1, 1.1 * 0] = [1, 0].
C10_EmptyLayoutFinalized ==
    (/\ Called
     /\ last.outcome \notin {"InvalidReadReference", "IndexOutOfRange"}
     /\ ChosenSource # <<>>
     /\ data.series[1].points = <<>>) =>
        /\ last.outcome = "done"
        /\ data.title # <<>>
        /\ data.xlabel = "Q Score"
        /\ data.ylabel # ""
        /\ data.xrange = <<10, 0>>
        /\ data.xrange[2] < data.xrange[1]

C10_Witness ==
    /\ Called
    /\ last.outcome = "done"
    /\ last.layout = "binned"
    /\ ChosenSource # <<>>
    /\ data.series[1].points = <<>>
    /\ data.xrange = <<10, 0>>
    /\ data.title # <<>>

====
